---- MODULE Spec2Model ----
(***************************************************************************)
(* Model of the nexus7 typed-resource -> HCL compiler: the CIDR engine     *)
(* (src/aws/network/cidr.rs) and the per-resource `From<T> for Block`      *)
(* conversions (src/aws/...).                                              *)
(***************************************************************************)
EXTENDS Integers, Sequences, FiniteSets, TLC

VARIABLES args, cidr, out, resource, block, shared, threads

vars == <<args, cidr, out, resource, block, shared, threads>>

(***************************************************************************)
(* Bounds and input samples                                                *)
(***************************************************************************)

\* largest prefix_length value (a u8) handed to Block::new
MaxPrefix == 35

\* largest number of keys in a tags map
MaxTags == 2

\* largest number of entries in a data source's filter list
MaxFilters == 2

\* absent Option / nothing returned yet
None == [tag |-> "None"]

Some(v) == [tag |-> "Some", v |-> v]

\* IPv4 addresses handed to Block::new and Block::contains (octets, big-endian)
Addrs ==
    { <<0, 0, 0, 0>>, <<255, 255, 255, 255>>, <<128, 0, 0, 0>>,
      <<10, 0, 0, 0>>, <<10, 0, 0, 1>>, <<10, 0, 0, 2>>, <<11, 0, 0, 0>>,
      <<172, 16, 0, 0>>, <<172, 31, 255, 255>>,
      <<192, 168, 1, 100>>, <<192, 168, 0, 1>>, <<192, 169, 0, 0>> }

(***************************************************************************)
(* 32-bit words: a u32 is its 32 bits, most significant first              *)
(***************************************************************************)

Pow2(n) == IF n = 0 THEN 1 ELSE IF n = 1 THEN 2 ELSE IF n = 2 THEN 4
           ELSE IF n = 3 THEN 8 ELSE IF n = 4 THEN 16 ELSE IF n = 5 THEN 32
           ELSE IF n = 6 THEN 64 ELSE 128

\* u32::from(Ipv4Addr): the big-endian value of the four octets
u32_from(a) ==
    [i \in 1..32 |-> (a[((i - 1) \div 8) + 1] \div Pow2(7 - ((i - 1) % 8))) % 2]

\* Ipv4Addr::from(u32): the four big-endian bytes of the word
Ipv4Addr_from(w) ==
    [k \in 1..4 |->
        w[8 * (k - 1) + 1] * 128 + w[8 * (k - 1) + 2] * 64
      + w[8 * (k - 1) + 3] * 32  + w[8 * (k - 1) + 4] * 16
      + w[8 * (k - 1) + 5] * 8   + w[8 * (k - 1) + 6] * 4
      + w[8 * (k - 1) + 7] * 2   + w[8 * (k - 1) + 8]]

u32_MAX == [i \in 1..32 |-> 1]

u32_ZERO == [i \in 1..32 |-> 0]

\* u32::checked_shl: None when the shift amount is >= 32
checked_shl(w, n) ==
    IF n >= 32 THEN None
    ELSE Some([i \in 1..32 |-> IF i + n <= 32 THEN w[i + n] ELSE 0])

\* u32::checked_shr: None when the shift amount is >= 32
checked_shr(w, n) ==
    IF n >= 32 THEN None
    ELSE Some([i \in 1..32 |-> IF i - n >= 1 THEN w[i - n] ELSE 0])

unwrap_or(o, d) == IF o.tag = "Some" THEN o.v ELSE d

BitAnd(x, y) == [i \in 1..32 |-> x[i] * y[i]]

BitOr(x, y) == [i \in 1..32 |-> IF x[i] = 1 \/ y[i] = 1 THEN 1 ELSE 0]

RECURSIVE u32_le_from(_, _, _)
\* x <= y on the bits i..32, the higher bits being equal
u32_le_from(x, y, i) ==
    IF i > 32 THEN TRUE
    ELSE IF x[i] = y[i] THEN u32_le_from(x, y, i + 1)
    ELSE x[i] < y[i]

\* x <= y on u32
u32_le(x, y) == u32_le_from(x, y, 1)

(***************************************************************************)
(* cidr::Block                                                             *)
(***************************************************************************)

Block_new_off_by_one(address, prefix_length) ==
    IF prefix_length >= 32
    THEN [tag |-> "Err", err |-> "Prefix length must be between 0 and 32"]
    ELSE [tag |-> "Ok",
          block |-> [address |-> address, prefix_length |-> prefix_length]]

Block_new(address, prefix_length) ==
    IF prefix_length > 32
    THEN [tag |-> "Err", err |-> "Prefix length must be between 0 and 32"]
    ELSE [tag |-> "Ok",
          block |-> [address |-> address, prefix_length |-> prefix_length]]

address(self) == self.address

prefix_length(self) == self.prefix_length

network_address_shift_by_prefix(self) ==
    IF self.prefix_length = 0
    THEN <<0, 0, 0, 0>>
    ELSE LET mask == unwrap_or(checked_shl(u32_MAX, self.prefix_length), u32_ZERO)
         IN  Ipv4Addr_from(BitAnd(u32_from(self.address), mask))

network_address_wrapping_shl(self) ==
    LET mask == unwrap_or(checked_shl(u32_MAX, (32 - self.prefix_length) % 32), u32_ZERO)
    IN  Ipv4Addr_from(BitAnd(u32_from(self.address), mask))

network_address(self) ==
    IF self.prefix_length = 0
    THEN <<0, 0, 0, 0>>
    ELSE LET mask == unwrap_or(checked_shl(u32_MAX, 32 - self.prefix_length), u32_ZERO)
         IN  Ipv4Addr_from(BitAnd(u32_from(self.address), mask))

broadcast_address_unwrap_max(self) ==
    LET mask == unwrap_or(checked_shr(u32_MAX, self.prefix_length), u32_MAX)
    IN  Ipv4Addr_from(BitOr(u32_from(self.address), mask))

broadcast_address_shift_one_more(self) ==
    IF self.prefix_length = 32
    THEN self.address
    ELSE LET mask == unwrap_or(checked_shr(u32_MAX, self.prefix_length + 1), u32_ZERO)
         IN  Ipv4Addr_from(BitOr(u32_from(self.address), mask))

broadcast_address(self) ==
    IF self.prefix_length = 32
    THEN self.address
    ELSE LET mask == unwrap_or(checked_shr(u32_MAX, self.prefix_length), u32_ZERO)
         IN  Ipv4Addr_from(BitOr(u32_from(self.address), mask))

contains_exclusive_lower(self, ip) ==
    LET network == u32_from(network_address(self))
        broadcast == u32_from(broadcast_address(self))
        ipw == u32_from(ip)
    IN  u32_le(network, ipw) /\ ipw # network /\ u32_le(ipw, broadcast)

contains_exclusive_upper(self, ip) ==
    LET network == u32_from(network_address(self))
        broadcast == u32_from(broadcast_address(self))
        ipw == u32_from(ip)
    IN  u32_le(network, ipw) /\ u32_le(ipw, broadcast) /\ ipw # broadcast

contains(self, ip) ==
    LET network == u32_from(network_address(self))
        broadcast == u32_from(broadcast_address(self))
        ipw == u32_from(ip)
    IN  u32_le(network, ipw) /\ u32_le(ipw, broadcast)

(***************************************************************************)
(* Display: decimal formatting                                             *)
(***************************************************************************)

Digit(d) ==
    CASE d = 0 -> "0" [] d = 1 -> "1" [] d = 2 -> "2" [] d = 3 -> "3"
      [] d = 4 -> "4" [] d = 5 -> "5" [] d = 6 -> "6" [] d = 7 -> "7"
      [] d = 8 -> "8" [] d = 9 -> "9"

RECURSIVE Decimal(_)
\* the decimal digits of an unsigned integer, no leading zeros
Decimal(n) == IF n < 10 THEN <<Digit(n)>> ELSE Decimal(n \div 10) \o <<Digit(n % 10)>>

\* Display for Ipv4Addr: the four octets in decimal joined by "."
Ipv4Addr_fmt(a) ==
    Decimal(a[1]) \o <<".">> \o Decimal(a[2]) \o <<".">> \o Decimal(a[3])
        \o <<".">> \o Decimal(a[4])

\* the characters `write!(f, "{}/{}", address, prefix_length)` writes
Block_fmt_no_separator(self) == Ipv4Addr_fmt(self.address) \o Decimal(self.prefix_length)

Block_fmt(self) == Ipv4Addr_fmt(self.address) \o <<"/">> \o Decimal(self.prefix_length)

RECURSIVE Concat(_)
\* the String holding a sequence of characters
Concat(cs) == IF cs = <<>> THEN "" ELSE Head(cs) \o Concat(Tail(cs))

to_string_of_network(self) ==
    Concat(Block_fmt([address |-> network_address(self),
                      prefix_length |-> self.prefix_length]))

\* ToString::to_string via Display
to_string(self) == Concat(Block_fmt(self))

(***************************************************************************)
(* Operations of the CIDR engine                                           *)
(*   args : the (address, prefix_length) the caller hands to Block::new    *)
(*   cidr : the Result it returned, None before the call                   *)
(*   out  : the last method called on the block and what it returned       *)
(***************************************************************************)

NoCall == [op |-> "none"]

Init ==
    /\ args \in [address : Addrs, prefix_length : 0..MaxPrefix]
    /\ cidr = None
    /\ out = NoCall
    /\ resource = None
    /\ block = None
    /\ shared = None
    /\ threads = <<>>

\* let cidr = Block::new(address, prefix_length)
New ==
    /\ cidr.tag = "None"
    /\ cidr' = Block_new(args.address, args.prefix_length)
    /\ UNCHANGED <<args, out, resource, block, shared, threads>>

\* cidr.unwrap().address()
Address ==
    /\ cidr.tag = "Ok"
    /\ out' = [op |-> "address", v |-> address(cidr.block)]
    /\ UNCHANGED <<args, cidr, resource, block, shared, threads>>

\* cidr.unwrap().prefix_length()
PrefixLength ==
    /\ cidr.tag = "Ok"
    /\ out' = [op |-> "prefix_length", v |-> prefix_length(cidr.block)]
    /\ UNCHANGED <<args, cidr, resource, block, shared, threads>>

\* cidr.unwrap().network_address()
NetworkAddress ==
    /\ cidr.tag = "Ok"
    /\ out' = [op |-> "network_address", v |-> network_address(cidr.block)]
    /\ UNCHANGED <<args, cidr, resource, block, shared, threads>>

\* cidr.unwrap().broadcast_address()
BroadcastAddress ==
    /\ cidr.tag = "Ok"
    /\ out' = [op |-> "broadcast_address", v |-> broadcast_address(cidr.block)]
    /\ UNCHANGED <<args, cidr, resource, block, shared, threads>>

\* cidr.unwrap().contains(ip)
Contains(ip) ==
    /\ cidr.tag = "Ok"
    /\ out' = [op |-> "contains", ip |-> ip, v |-> contains(cidr.block, ip)]
    /\ UNCHANGED <<args, cidr, resource, block, shared, threads>>

\* format!("{}", cidr.unwrap())
Render ==
    /\ cidr.tag = "Ok"
    /\ out' = [op |-> "fmt", v |-> Block_fmt(cidr.block)]
    /\ UNCHANGED <<args, cidr, resource, block, shared, threads>>

\* addresses a caller probes a block with: the samples and the block's own bounds
Probes ==
    Addrs \cup (IF cidr.tag = "Ok"
                THEN {network_address(cidr.block), broadcast_address(cidr.block)}
                ELSE {})

Next ==
    \/ New
    \/ Address
    \/ PrefixLength
    \/ NetworkAddress
    \/ BroadcastAddress
    \/ \E ip \in Probes : Contains(ip)
    \/ Render

Spec == Init /\ [][Next]_vars

(***************************************************************************)
(* hcl: Expression, Block and the block builder                            *)
(***************************************************************************)

Expression_String(s) == [tag |-> "String", s |-> s]

Expression_Bool(b) == [tag |-> "Bool", b |-> b]

Expression_Array(elems) == [tag |-> "Array", elems |-> elems]

\* an Object keeps its entries in insertion order
Expression_Object(entries) == [tag |-> "Object", entries |-> entries]

\* impl From<String> for Expression
Expression_from(s) == Expression_String(s)

\* Block::builder(identifier)
builder(identifier) == [identifier |-> identifier, labels |-> <<>>, body |-> <<>>]

add_label(b, label) == [b EXCEPT !.labels = Append(@, label)]

add_attribute(b, key, expr) ==
    [b EXCEPT !.body = Append(@, [kind |-> "attribute", key |-> key, expr |-> expr])]

add_block(b, nested) ==
    [b EXCEPT !.body = Append(@, [kind |-> "block", block |-> nested])]

add_blocks(b, nested) ==
    [b EXCEPT !.body =
        @ \o [i \in 1..Len(nested) |-> [kind |-> "block", block |-> nested[i]]]]

build(b) == b

(***************************************************************************)
(* Code shared, verbatim, by the resource compilers                        *)
(***************************************************************************)

\* if let Some(x) = field { block = block.add_attribute((key, Expression::String(x))) }
opt_string(b, field, key) ==
    IF field.tag = "Some" THEN add_attribute(b, key, Expression_String(field.v)) ELSE b

opt_bool_as_string(b, field, key) ==
    IF field.tag = "Some"
    THEN add_attribute(b, key, Expression_String(IF field.v THEN "true" ELSE "false"))
    ELSE b

\* if let Some(x) = field { block = block.add_attribute((key, Expression::Bool(x))) }
opt_bool(b, field, key) ==
    IF field.tag = "Some" THEN add_attribute(b, key, Expression_Bool(field.v)) ELSE b

tags_expr_first_only(tags, ord) ==
    Expression_Object([i \in 1..(IF Len(ord) > 1 THEN 1 ELSE Len(ord)) |->
        [key |-> ord[i], value |-> Expression_String(tags[ord[i]])]])

tags_expr_array(tags, ord) ==
    Expression_Array([i \in 1..Len(ord) |->
        Expression_Array(<<Expression_String(ord[i]), Expression_String(tags[ord[i]])>>)])

\* tags.into_iter().map(|(k, v)| (ObjectKey::from(k), Expression::String(v))).collect()
\* ord is the order in which the HashMap yields its keys
tags_expr(tags, ord) ==
    Expression_Object([i \in 1..Len(ord) |->
        [key |-> ord[i], value |-> Expression_String(tags[ord[i]])]])

opt_tags_skip_empty(b, field, ord) ==
    IF field.tag = "Some" /\ DOMAIN field.v # {}
    THEN add_attribute(b, "tags", tags_expr(field.v, ord)) ELSE b

\* if let Some(tags) = x.tags { block = block.add_attribute(("tags", tags_expr)) }
opt_tags(b, field, ord) ==
    IF field.tag = "Some" THEN add_attribute(b, "tags", tags_expr(field.v, ord)) ELSE b

\* Block::builder("filter").add_attribute(("name", ..)).add_attribute(("values", ..)).build()
filter_block(f) ==
    build(add_attribute(
            add_attribute(builder("filter"), "name", Expression_String(f.name)),
            "values",
            Expression_Array([i \in 1..Len(f.values) |-> Expression_String(f.values[i])])))

opt_filters_marks_empty(b, field) ==
    IF field.tag = "Some"
    THEN IF Len(field.v) = 0
         THEN add_block(b, build(builder("filter")))
         ELSE add_blocks(b, [i \in 1..Len(field.v) |-> filter_block(field.v[i])])
    ELSE b

opt_filters_reversed(b, field) ==
    IF field.tag = "Some"
    THEN add_blocks(b, [i \in 1..Len(field.v) |->
                           filter_block(field.v[Len(field.v) + 1 - i])])
    ELSE b

\* if let Some(filters) = data_source.filter { block = block.add_blocks(filter_blocks) }
opt_filters(b, field) ==
    IF field.tag = "Some"
    THEN add_blocks(b, [i \in 1..Len(field.v) |-> filter_block(field.v[i])])
    ELSE b

as_deref_unwrap_or_always_default(field, default) == default

\* Option::as_deref().unwrap_or(default)
as_deref_unwrap_or(field, default) == IF field.tag = "Some" THEN field.v ELSE default

(***************************************************************************)
(* Identity enums                                                          *)
(***************************************************************************)

ACLOptions ==
    {"Private", "PublicRead", "PublicReadWrite", "AuthenticatedRead",
     "LogDeliveryWrite", "BucketOwnerRead", "BucketOwnerFullControl"}

\* impl fmt::Display for ACLOptions
ACLOptions_to_string(acl) ==
    CASE acl = "Private" -> "private"
      [] acl = "PublicRead" -> "public-read"
      [] acl = "PublicReadWrite" -> "public-read-write"
      [] acl = "AuthenticatedRead" -> "authenticated-read"
      [] acl = "LogDeliveryWrite" -> "log-delivery-write"
      [] acl = "BucketOwnerRead" -> "bucket-owner-read"
      [] acl = "BucketOwnerFullControl" -> "bucket-owner-full-control"

AvailabilityZone == {"UsEast1a", "UsEast1b", "UsEast1c"}

\* AvailabilityZone::to_string
AvailabilityZone_to_string(az) ==
    CASE az = "UsEast1a" -> "us-east-1a"
      [] az = "UsEast1b" -> "us-east-1b"
      [] az = "UsEast1c" -> "us-east-1c"

AccessControlPolicy == {"AccessControlPolicy", "ACL"}

(***************************************************************************)
(* Resource compilers: impl From<T> for hcl::Block                         *)
(***************************************************************************)

\* Vpc::resource_name
Vpc_resource_name(self) == "aws_vpc." \o self.name

from_Vpc(vpc, ord) ==
    LET b0 == add_attribute(add_label(add_label(builder("resource"), "aws_vpc"), vpc.name),
                            "cidr_block", Expression_String(to_string(vpc.cidr_block)))
        b1 == opt_string(b0, vpc.instance_tenancy, "instance_tenancy")
        b2 == opt_bool(b1, vpc.enable_dns_hostnames, "enable_dns_hostnames")
        b3 == opt_bool(b2, vpc.enable_dns_support, "enable_dns_support")
        b4 == opt_bool(b3, vpc.enable_classiclink, "enable_classiclink")
        b5 == opt_bool(b4, vpc.enable_classiclink_dns_support,
                       "enable_classiclink_dns_support")
        b6 == opt_bool(b5, vpc.assign_generated_ipv6_cidr_block,
                       "assign_generated_ipv6_cidr_block")
        b7 == opt_tags(b6, vpc.tags, ord)
    IN  build(b7)

from_VpcDataSource(data_source, ord) ==
    LET b0 == add_label(add_label(builder("data"), "aws_vpc"),
                        as_deref_unwrap_or(data_source.id, "vpc"))
        b1 == opt_string(b0, data_source.id, "id")
        b2 == opt_string(b1, data_source.cidr_block, "cidr_block")
        b3 == opt_string(b2, data_source.owner_id, "owner_id")
        b4 == opt_bool(b3, data_source.enable_dns_hostnames, "enable_dns_hostnames")
        b5 == opt_bool(b4, data_source.enable_dns_support, "enable_dns_support")
        b6 == opt_tags(b5, data_source.tags, ord)
        b7 == opt_filters(b6, data_source.filter)
    IN  build(b7)

from_ElasticIp(eip, ord) ==
    LET b0 == add_label(add_label(builder("resource"), "aws_eip"), eip.name)
        b1 == opt_string(b0, eip.domain, "domain")
        b2 == opt_string(b1, eip.instance, "instance")
        b3 == opt_string(b2, eip.network_interface, "network_interface")
        b4 == opt_string(b3, eip.public_ipv4_pool, "public_ipv4_pool")
        b5 == opt_string(b4, eip.customer_owned_ipv4_pool, "customer_owned_ipv4_pool")
        b6 == opt_string(b5, eip.associate_with_private_ip, "associate_with_private_ip")
        b7 == opt_string(b6, eip.address, "address")
        b8 == opt_tags(b7, eip.tags, ord)
    IN  build(b8)

from_Subnet(subnet, ord) ==
    LET b0 == add_attribute(
                add_attribute(
                    add_label(add_label(builder("resource"), "aws_subnet"), subnet.name),
                    "vpc_id",
                    Expression_from("${" \o Vpc_resource_name(subnet.vpc) \o ".id}")),
                "cidr_block", Expression_String(to_string(subnet.cidr_block)))
        b1 == IF subnet.availability_zone.tag = "Some"
              THEN add_attribute(b0, "availability_zone",
                       Expression_String(AvailabilityZone_to_string(subnet.availability_zone.v)))
              ELSE b0
        b2 == opt_bool(b1, subnet.assign_ipv6_address_on_creation,
                       "assign_ipv6_address_on_creation")
        b3 == opt_string(b2, subnet.ipv6_cidr_block, "ipv6_cidr_block")
        b4 == opt_bool(b3, subnet.map_public_ip_on_launch, "map_public_ip_on_launch")
        b5 == opt_tags(b4, subnet.tags, ord)
    IN  build(b5)

from_NAT_emits_vpc_id(nat, ord) ==
    LET b0 == add_attribute(
                add_attribute(
                    add_label(add_label(builder("resource"), "aws_nat_gateway"),
                              as_deref_unwrap_or(nat.id, "nat")),
                    "subnet_id",
                    Expression_from("${aws_subnet." \o nat.subnet.name \o ".id}")),
                "allocation_id",
                Expression_from("${aws_eip." \o nat.elastic_ip.name \o ".id}"))
        b1 == add_attribute(b0, "vpc_id",
                  Expression_from("${aws_vpc." \o nat.vpc.name \o ".id}"))
        b2 == opt_string(b1, nat.connectivity_type, "connectivity_type")
        b3 == opt_string(b2, nat.state, "state")
        b4 == opt_tags(b3, nat.tags, ord)
    IN  build(b4)

from_NAT(nat, ord) ==
    LET b0 == add_attribute(
                add_attribute(
                    add_label(add_label(builder("resource"), "aws_nat_gateway"),
                              as_deref_unwrap_or(nat.id, "nat")),
                    "subnet_id",
                    Expression_from("${aws_subnet." \o nat.subnet.name \o ".id}")),
                "allocation_id",
                Expression_from("${aws_eip." \o nat.elastic_ip.name \o ".id}"))
        b1 == opt_string(b0, nat.connectivity_type, "connectivity_type")
        b2 == opt_string(b1, nat.state, "state")
        b3 == opt_tags(b2, nat.tags, ord)
    IN  build(b3)

from_NATDataSource(data_source, ord) ==
    LET b0 == add_label(add_label(builder("data"), "aws_nat_gateway"),
                        as_deref_unwrap_or(data_source.id, "nat"))
        b1 == opt_string(b0, data_source.id, "id")
        b2 == opt_string(b1, data_source.vpc_id, "vpc_id")
        b3 == opt_string(b2, data_source.state, "state")
        b4 == opt_tags(b3, data_source.tags, ord)
        b5 == opt_filters(b4, data_source.filter)
    IN  build(b5)

from_Internet_tags_first(internet, ord) ==
    LET b0 == opt_tags(add_label(add_label(builder("resource"), "aws_internet_gateway"),
                                 internet.name),
                       internet.tags, ord)
        b1 == add_attribute(b0, "vpc_id",
                  Expression_from("${aws_vpc." \o internet.vpc.name \o ".id}"))
    IN  build(b1)

from_Internet(internet, ord) ==
    LET b0 == add_attribute(
                add_label(add_label(builder("resource"), "aws_internet_gateway"),
                          internet.name),
                "vpc_id", Expression_from("${aws_vpc." \o internet.vpc.name \o ".id}"))
        b1 == opt_tags(b0, internet.tags, ord)
    IN  build(b1)

from_InternetDataSource_as_resource(data_source, ord) ==
    LET b0 == add_label(add_label(builder("resource"), "aws_internet_gateway"),
                        data_source.name)
        b1 == opt_string(b0, data_source.internet_gateway_id, "internet_gateway_id")
        b2 == opt_tags(b1, data_source.tags, ord)
        b3 == opt_filters(b2, data_source.filter)
    IN  build(b3)

from_InternetDataSource(data_source, ord) ==
    LET b0 == add_label(add_label(builder("data"), "aws_internet_gateway"),
                        data_source.name)
        b1 == opt_string(b0, data_source.internet_gateway_id, "internet_gateway_id")
        b2 == opt_tags(b1, data_source.tags, ord)
        b3 == opt_filters(b2, data_source.filter)
    IN  build(b3)

from_Cluster_role_name(cluster, ord) ==
    LET b0 == add_attribute(
                add_attribute(
                    add_label(add_label(builder("resource"), "aws_eks_cluster"),
                              cluster.name),
                    "name", Expression_String(cluster.name)),
                "role_arn", Expression_String(cluster.role.name))
        vpc_config ==
            build(add_attribute(builder("vpc_config"), "subnet_ids",
                Expression_Array([i \in 1..Len(cluster.subnet_ids) |->
                    Expression_from("${aws_subnet." \o cluster.subnet_ids[i].name
                                        \o ".id}")])))
        b1 == add_block(b0, vpc_config)
        b2 == opt_string(b1, cluster.version, "version")
        b3 == opt_string(b2, cluster.kubernetes_version, "kubernetes_version")
        b4 == IF cluster.enabled_cluster_log_types.tag = "Some"
              THEN add_attribute(b3, "enabled_cluster_log_types",
                       Expression_Array(
                           [i \in 1..Len(cluster.enabled_cluster_log_types.v) |->
                               Expression_String(cluster.enabled_cluster_log_types.v[i])]))
              ELSE b3
        b5 == opt_bool(b4, cluster.endpoint_private_access, "endpoint_private_access")
        b6 == opt_bool(b5, cluster.endpoint_public_access, "endpoint_public_access")
        b7 == IF cluster.encryption_config.tag = "Some"
              THEN add_block(b6,
                       build(add_block(builder("encryption_config"),
                           build(add_attribute(builder("provider"), "key_arn",
                               Expression_String(cluster.encryption_config.v.kms_key_arn))))))
              ELSE b6
        b8 == opt_tags(b7, cluster.tags, ord)
    IN  build(b8)

from_Cluster(cluster, ord) ==
    LET b0 ==add_attribute(
                add_attribute(
                    add_label(add_label(builder("resource"), "aws_eks_cluster"),
                              cluster.name),
                    "name", Expression_String(cluster.name)),
                "role_arn", Expression_String(cluster.role.arn))
        vpc_config ==
            build(add_attribute(builder("vpc_config"), "subnet_ids",
                Expression_Array([i \in 1..Len(cluster.subnet_ids) |->
                    Expression_from("${aws_subnet." \o cluster.subnet_ids[i].name
                                        \o ".id}")])))
        b1 == add_block(b0, vpc_config)
        b2 == opt_string(b1, cluster.version, "version")
        b3 == opt_string(b2, cluster.kubernetes_version, "kubernetes_version")
        b4 == IF cluster.enabled_cluster_log_types.tag = "Some"
              THEN add_attribute(b3, "enabled_cluster_log_types",
                       Expression_Array(
                           [i \in 1..Len(cluster.enabled_cluster_log_types.v) |->
                               Expression_String(cluster.enabled_cluster_log_types.v[i])]))
              ELSE b3
        b5 == opt_bool(b4, cluster.endpoint_private_access, "endpoint_private_access")
        b6 == opt_bool(b5, cluster.endpoint_public_access, "endpoint_public_access")
        b7 == IF cluster.encryption_config.tag = "Some"
              THEN add_block(b6,
                       build(add_block(builder("encryption_config"),
                           build(add_attribute(builder("provider"), "key_arn",
                               Expression_String(cluster.encryption_config.v.kms_key_arn))))))
              ELSE b6
        b8 == opt_tags(b7, cluster.tags, ord)
    IN  build(b8)

from_BucketACL_defaults_private(bucket_acl) ==
    LET b0 == add_attribute(
                add_label(add_label(builder("resource"), "aws_s3_bucket_acl"),
                          bucket_acl.bucket),
                "bucket", Expression_String(bucket_acl.bucket))
        b1 == IF bucket_acl.acl.tag = "Some"
              THEN add_attribute(b0, "acl",
                       Expression_String(ACLOptions_to_string(bucket_acl.acl.v)))
              ELSE add_attribute(b0, "acl",
                       Expression_String(ACLOptions_to_string("Private")))
        b2 == IF bucket_acl.access_control_policy.tag = "Some"
              THEN add_block(b1,
                       build(add_attribute(builder("access_control_policy"), "type",
                           Expression_String(
                               IF bucket_acl.access_control_policy.v = "AccessControlPolicy"
                               THEN "access_control_policy" ELSE "acl"))))
              ELSE b1
        b3 == opt_string(b2, bucket_acl.expected_bucket_owner, "expected_bucket_owner")
    IN  build(b3)

from_BucketACL(bucket_acl) ==
    LET b0 == add_attribute(
                add_label(add_label(builder("resource"), "aws_s3_bucket_acl"),
                          bucket_acl.bucket),
                "bucket", Expression_String(bucket_acl.bucket))
        b1 == IF bucket_acl.acl.tag = "Some"
              THEN add_attribute(b0, "acl",
                       Expression_String(ACLOptions_to_string(bucket_acl.acl.v)))
              ELSE b0
        b2 == IF bucket_acl.access_control_policy.tag = "Some"
              THEN add_block(b1,
                       build(add_attribute(builder("access_control_policy"), "type",
                           Expression_String(
                               IF bucket_acl.access_control_policy.v = "AccessControlPolicy"
                               THEN "access_control_policy" ELSE "acl"))))
              ELSE b1
        b3 == opt_string(b2, bucket_acl.expected_bucket_owner, "expected_bucket_owner")
    IN  build(b3)

from_Bucket_no_default(bucket, ord) ==
    LET b0 == add_label(builder("resource"), "aws_s3_bucket")
        b1 == IF bucket.name.tag = "Some"
              THEN add_attribute(add_label(b0, bucket.name.v),
                                 "bucket", Expression_String(bucket.name.v))
              ELSE b0
        b2 == IF bucket.acl.tag = "Some"
              THEN add_attribute(b1, "acl",
                       Expression_String(ACLOptions_to_string(bucket.acl.v)))
              ELSE b1
        b3 == opt_string(b2, bucket.prefix, "bucket_prefix")
        b4 == opt_bool(b3, bucket.force_destroy, "force_destroy")
        b5 == opt_bool(b4, bucket.object_lock_enabled, "object_lock_enabled")
        b6 == opt_tags(b5, bucket.tags, ord)
    IN  build(b6)

from_Bucket_name_excludes_prefix(bucket, ord) ==
    LET b0 == add_label(builder("resource"), "aws_s3_bucket")
        b1 == IF bucket.name.tag = "Some"
              THEN add_attribute(add_label(b0, bucket.name.v),
                                 "bucket", Expression_String(bucket.name.v))
              ELSE b0
        b2 == IF bucket.acl.tag = "Some"
              THEN add_attribute(b1, "acl",
                       Expression_String(ACLOptions_to_string(bucket.acl.v)))
              ELSE add_attribute(b1, "acl",
                       Expression_String(ACLOptions_to_string("Private")))
        b3 == IF bucket.name.tag = "Some" THEN b2
              ELSE opt_string(b2, bucket.prefix, "bucket_prefix")
        b4 == opt_bool(b3, bucket.force_destroy, "force_destroy")
        b5 == opt_bool(b4, bucket.object_lock_enabled, "object_lock_enabled")
        b6 == opt_tags(b5, bucket.tags, ord)
    IN  build(b6)

from_Bucket_skip_empty_name(bucket, ord) ==
    LET b0 == add_label(builder("resource"), "aws_s3_bucket")
        b1 == IF bucket.name.tag = "Some" /\ bucket.name.v # ""
              THEN add_attribute(add_label(b0, bucket.name.v),
                                 "bucket", Expression_String(bucket.name.v))
              ELSE b0
        b2 == IF bucket.acl.tag = "Some"
              THEN add_attribute(b1, "acl",
                       Expression_String(ACLOptions_to_string(bucket.acl.v)))
              ELSE add_attribute(b1, "acl",
                       Expression_String(ACLOptions_to_string("Private")))
        b3 == opt_string(b2, bucket.prefix, "bucket_prefix")
        b4 == opt_bool(b3, bucket.force_destroy, "force_destroy")
        b5 == opt_bool(b4, bucket.object_lock_enabled, "object_lock_enabled")
        b6 == opt_tags(b5, bucket.tags, ord)
    IN  build(b6)

from_Bucket(bucket, ord) ==
    LET b0 == add_label(builder("resource"), "aws_s3_bucket")
        b1 == IF bucket.name.tag = "Some"
              THEN add_attribute(add_label(b0, bucket.name.v),
                                 "bucket", Expression_String(bucket.name.v))
              ELSE b0
        b2 == IF bucket.acl.tag = "Some"
              THEN add_attribute(b1, "acl",
                       Expression_String(ACLOptions_to_string(bucket.acl.v)))
              ELSE add_attribute(b1, "acl",
                       Expression_String(ACLOptions_to_string("Private")))
        b3 == opt_string(b2, bucket.prefix, "bucket_prefix")
        b4 == opt_bool(b3, bucket.force_destroy, "force_destroy")
        b5 == opt_bool(b4, bucket.object_lock_enabled, "object_lock_enabled")
        b6 == opt_tags(b5, bucket.tags, ord)
    IN  build(b6)

(***************************************************************************)
(* Resource values handed to the compilers                                 *)
(***************************************************************************)

OptBool == {None, Some(TRUE), Some(FALSE)}

OptString(strs) == {None} \cup {Some(x) : x \in strs}

TagKeySeq == <<"Environment", "Name", "Owner", "Project">>

TagValue(k) ==
    CASE k = "Environment" -> "Production"
      [] k = "Name" -> "Main VPC"
      [] k = "Owner" -> "TeamA"
      [] k = "Project" -> "MyProject"

TagKeys == {TagKeySeq[i] : i \in {j \in 1..MaxTags : j <= Len(TagKeySeq)}}

\* HashMap<String, String> values: a map is a function on its key set
TagMaps == {[k \in K |-> TagValue(k)] : K \in SUBSET TagKeys}

OptTags == {None} \cup {Some(m) : m \in TagMaps}

Filters == {[name |-> "a", values |-> <<"x", "y">>], [name |-> "b", values |-> <<>>]}

OptFilters == {None} \cup {Some(l) : l \in UNION {[1..n -> Filters] : n \in 0..MaxFilters}}

\* cidr::Block values: only what Block::new returned Ok for
CidrBlocks ==
    {r.block : r \in {x \in {Block_new(<<10, 0, 0, 0>>, 16),
                             Block_new(<<192, 168, 1, 100>>, 24),
                             Block_new(<<10, 0, 0, 0>>, 33)} : x.tag = "Ok"}}

Vpcs ==
    [kind : {"Vpc"}, name : {"main", "test-vpc"}, cidr_block : CidrBlocks,
     instance_tenancy : OptString({"default"}),
     enable_dns_hostnames : OptBool,
     enable_dns_support : OptBool,
     enable_classiclink : {None, Some(TRUE)},
     enable_classiclink_dns_support : {None, Some(TRUE)},
     assign_generated_ipv6_cidr_block : {None, Some(FALSE)},
     tags : OptTags]

\* the Vpc values other resources borrow
RefVpcs ==
    {v \in Vpcs :
        /\ v.enable_dns_hostnames = None /\ v.enable_classiclink = None
        /\ v.enable_classiclink_dns_support = None
        /\ v.assign_generated_ipv6_cidr_block = None
        /\ \/ /\ v.cidr_block.prefix_length = 16 /\ v.instance_tenancy = None
              /\ v.enable_dns_support = None /\ v.tags = None
           \/ /\ v.name = "main" /\ v.cidr_block.prefix_length = 24
              /\ v.instance_tenancy # None /\ v.enable_dns_support = Some(TRUE)
              /\ v.tags = Some(<<>>)}

Subnets ==
    [kind : {"Subnet"}, name : {"subnet1", "subnet2"}, vpc : RefVpcs,
     cidr_block : CidrBlocks,
     availability_zone : {None} \cup {Some(az) : az \in AvailabilityZone},
     assign_ipv6_address_on_creation : {None, Some(TRUE)},
     ipv6_cidr_block : OptString({"2001:db8::/64"}),
     map_public_ip_on_launch : OptBool,
     tags : OptTags]

\* the Subnet values other resources borrow
RefSubnets ==
    {x \in Subnets :
        /\ x.vpc.name = "main" /\ x.vpc.tags = None
        /\ x.cidr_block.prefix_length = 24
        /\ x.availability_zone = None /\ x.assign_ipv6_address_on_creation = None
        /\ x.ipv6_cidr_block = None /\ x.map_public_ip_on_launch = None
        /\ x.tags = None}

ElasticIps ==
    [kind : {"ElasticIp"}, name : {"nat-eip", "eip2"},
     domain : OptString({"vpc"}),
     instance : OptString({"i-12345"}),
     network_interface : OptString({"eni-12345"}),
     public_ipv4_pool : OptString({"amazon"}),
     customer_owned_ipv4_pool : OptString({"ipv4pool-coip-12345"}),
     associate_with_private_ip : OptString({"10.0.0.5"}),
     address : OptString({"203.0.113.7"}),
     tags : OptTags]

\* the ElasticIp values other resources borrow
RefElasticIps ==
    {x \in ElasticIps :
        /\ x.domain = Some("vpc") /\ x.instance = None /\ x.network_interface = None
        /\ x.public_ipv4_pool = None /\ x.customer_owned_ipv4_pool = None
        /\ x.associate_with_private_ip = None /\ x.address = None /\ x.tags = None}

VpcDataSources ==
    [kind : {"VpcDataSource"}, id : OptString({"vpc-12345"}),
     cidr_block : OptString({"10.0.0.0/16"}),
     owner_id : OptString({"123456789012"}),
     enable_dns_hostnames : OptBool, enable_dns_support : OptBool,
     tags : OptTags, filter : OptFilters]

NATs ==
    [kind : {"NAT"}, id : OptString({"ngw-12345"}), vpc : RefVpcs,
     subnet : RefSubnets, elastic_ip : RefElasticIps,
     connectivity_type : OptString({"public"}),
     tags : OptTags,
     state : OptString({"available"})]

NATDataSources ==
    [kind : {"NATDataSource"}, filter : OptFilters,
     id : OptString({"ngw-12345"}),
     state : OptString({"available"}),
     subnet_id : OptString({"subnet-12345"}),
     tags : OptTags,
     vpc_id : OptString({"vpc-12345"})]

Internets ==
    [kind : {"Internet"}, name : {"main-igw", "igw2"}, vpc : RefVpcs, tags : OptTags]

InternetDataSources ==
    [kind : {"InternetDataSource"}, name : {"main-igw", "igw2"},
     internet_gateway_id : OptString({"igw-12345"}),
     filter : OptFilters, tags : OptTags]

\* iam::Role values a cluster borrows
Roles ==
    {[name |-> "eks-cluster-role",
      arn |-> "arn:aws:iam::123456789012:role/eks-cluster-role"],
     [name |-> "other-role",
      arn |-> "arn:aws:iam::123456789012:role/other-role"]}

Clusters ==
    [kind : {"Cluster"}, name : {"test-cluster"},
     vpc : {v \in RefVpcs : v.name = "main"},
     subnet_ids : UNION {[1..n -> RefSubnets] : n \in 0..2},
     version : OptString({"1.21"}),
     role : Roles,
     kubernetes_version : OptString({"1.22"}),
     enabled_cluster_log_types : {None, Some(<<"api", "audit">>)},
     endpoint_private_access : {None, Some(TRUE)},
     endpoint_public_access : {None, Some(FALSE)},
     encryption_config : {None, Some([kms_key_arn |-> "arn:aws:kms:us-west-2:111122223333:key/1234abcd"])},
     tags : OptTags]

BucketACLs ==
    [kind : {"BucketACL"},
     acl : {None} \cup {Some(a) : a \in ACLOptions},
     access_control_policy : {None} \cup {Some(p) : p \in AccessControlPolicy},
     bucket : {"my-bucket", ""},
     expected_bucket_owner : OptString({"123456789012"})]

Buckets ==
    [kind : {"Bucket"},
     name : OptString({"my-bucket", ""}),
     acl : {None} \cup {Some(a) : a \in ACLOptions},
     prefix : OptString({"prefix-", ""}),
     force_destroy : OptBool,
     object_lock_enabled : OptBool,
     tags : OptTags]

Resources ==
    Vpcs \cup VpcDataSources \cup ElasticIps \cup Subnets \cup NATs
        \cup NATDataSources \cup Internets \cup InternetDataSources
        \cup Clusters \cup BucketACLs \cup Buckets

\* the orders in which a HashMap can yield its keys; one empty order when there is no map
Orders(r) ==
    IF "tags" \in DOMAIN r /\ r.tags.tag = "Some"
    THEN LET keys == DOMAIN r.tags.v
         IN  {o \in [1..Cardinality(keys) -> keys] :
                 \A i, j \in 1..Cardinality(keys) : o[i] = o[j] => i = j}
    ELSE {<<>>}

(***************************************************************************)
(* Operations of the resource compilers                                    *)
(*   resource : the resource value handed to `Block::from`                 *)
(*   block    : the hcl::Block it returned, None before the call           *)
(***************************************************************************)

InitCompile ==
    /\ args = NoCall
    /\ cidr = None
    /\ out = NoCall
    /\ resource \in Resources
    /\ block = None
    /\ shared = None
    /\ threads = <<>>

\* let block: Block = resource.into(), for a resource of type Vpc
From_Vpc ==
    /\ block.tag = "None"
    /\ resource.kind = "Vpc"
    /\ \E ord \in Orders(resource) : block' = Some(from_Vpc(resource, ord))
    /\ UNCHANGED <<args, cidr, out, resource, shared, threads>>

\* let block: Block = resource.into(), for a resource of type VpcDataSource
From_VpcDataSource ==
    /\ block.tag = "None"
    /\ resource.kind = "VpcDataSource"
    /\ \E ord \in Orders(resource) : block' = Some(from_VpcDataSource(resource, ord))
    /\ UNCHANGED <<args, cidr, out, resource, shared, threads>>

\* let block: Block = resource.into(), for a resource of type ElasticIp
From_ElasticIp ==
    /\ block.tag = "None"
    /\ resource.kind = "ElasticIp"
    /\ \E ord \in Orders(resource) : block' = Some(from_ElasticIp(resource, ord))
    /\ UNCHANGED <<args, cidr, out, resource, shared, threads>>

\* let block: Block = resource.into(), for a resource of type Subnet
From_Subnet ==
    /\ block.tag = "None"
    /\ resource.kind = "Subnet"
    /\ \E ord \in Orders(resource) : block' = Some(from_Subnet(resource, ord))
    /\ UNCHANGED <<args, cidr, out, resource, shared, threads>>

\* let block: Block = resource.into(), for a resource of type NAT
From_NAT ==
    /\ block.tag = "None"
    /\ resource.kind = "NAT"
    /\ \E ord \in Orders(resource) : block' = Some(from_NAT(resource, ord))
    /\ UNCHANGED <<args, cidr, out, resource, shared, threads>>

\* let block: Block = resource.into(), for a resource of type NATDataSource
From_NATDataSource ==
    /\ block.tag = "None"
    /\ resource.kind = "NATDataSource"
    /\ \E ord \in Orders(resource) : block' = Some(from_NATDataSource(resource, ord))
    /\ UNCHANGED <<args, cidr, out, resource, shared, threads>>

\* let block: Block = resource.into(), for a resource of type Internet
From_Internet ==
    /\ block.tag = "None"
    /\ resource.kind = "Internet"
    /\ \E ord \in Orders(resource) : block' = Some(from_Internet(resource, ord))
    /\ UNCHANGED <<args, cidr, out, resource, shared, threads>>

\* let block: Block = resource.into(), for a resource of type InternetDataSource
From_InternetDataSource ==
    /\ block.tag = "None"
    /\ resource.kind = "InternetDataSource"
    /\ \E ord \in Orders(resource) : block' = Some(from_InternetDataSource(resource, ord))
    /\ UNCHANGED <<args, cidr, out, resource, shared, threads>>

\* let block: Block = resource.into(), for a resource of type Cluster
From_Cluster ==
    /\ block.tag = "None"
    /\ resource.kind = "Cluster"
    /\ \E ord \in Orders(resource) : block' = Some(from_Cluster(resource, ord))
    /\ UNCHANGED <<args, cidr, out, resource, shared, threads>>

\* let block: Block = resource.into(), for a resource of type BucketACL
From_BucketACL ==
    /\ block.tag = "None"
    /\ resource.kind = "BucketACL"
    /\ block' = Some(from_BucketACL(resource))
    /\ UNCHANGED <<args, cidr, out, resource, shared, threads>>

\* let block: Block = resource.into(), for a resource of type Bucket
From_Bucket ==
    /\ block.tag = "None"
    /\ resource.kind = "Bucket"
    /\ \E ord \in Orders(resource) : block' = Some(from_Bucket(resource, ord))
    /\ UNCHANGED <<args, cidr, out, resource, shared, threads>>

NextCompile ==
    \/ From_Vpc
    \/ From_VpcDataSource
    \/ From_ElasticIp
    \/ From_Subnet
    \/ From_NAT
    \/ From_NATDataSource
    \/ From_Internet
    \/ From_InternetDataSource
    \/ From_Cluster
    \/ From_BucketACL
    \/ From_Bucket

SpecCompile == InitCompile /\ [][NextCompile]_vars

\* the block Block::from returns for r when its tags map yields its keys in
\* the order ord
Compiled(r, ord) ==
    CASE r.kind = "Vpc" -> from_Vpc(r, ord)
      [] r.kind = "VpcDataSource" -> from_VpcDataSource(r, ord)
      [] r.kind = "ElasticIp" -> from_ElasticIp(r, ord)
      [] r.kind = "Subnet" -> from_Subnet(r, ord)
      [] r.kind = "NAT" -> from_NAT(r, ord)
      [] r.kind = "NATDataSource" -> from_NATDataSource(r, ord)
      [] r.kind = "Internet" -> from_Internet(r, ord)
      [] r.kind = "InternetDataSource" -> from_InternetDataSource(r, ord)
      [] r.kind = "Cluster" -> from_Cluster(r, ord)
      [] r.kind = "BucketACL" -> from_BucketACL(r)
      [] r.kind = "Bucket" -> from_Bucket(r, ord)

(***************************************************************************)
(* Compilation by several threads of resources that borrow the same values *)
(*   shared  : the Vpc, Subnet and ElasticIp the resources hold `&` to     *)
(*   threads : per thread, the resource it owns, the number of the next    *)
(*             borrowed value it reads, the values it has read, and the    *)
(*             hcl::Block its conversion returned (None before)            *)
(***************************************************************************)

\* number of threads compiling at once
NumThreads == 3

\* the borrowed values; a reference field holds the name of the cell it points to
SharedInit ==
    [vpc |-> [kind |-> "Vpc", name |-> "main",
              cidr_block |-> [address |-> <<10, 0, 0, 0>>, prefix_length |-> 16],
              instance_tenancy |-> None, enable_dns_hostnames |-> None,
              enable_dns_support |-> Some(TRUE), enable_classiclink |-> None,
              enable_classiclink_dns_support |-> None,
              assign_generated_ipv6_cidr_block |-> None,
              tags |-> Some([k \in {"Name"} |-> TagValue(k)])],
     subnet |-> [kind |-> "Subnet", name |-> "subnet1", vpc |-> "vpc",
                 cidr_block |-> [address |-> <<192, 168, 1, 100>>, prefix_length |-> 24],
                 availability_zone |-> None,
                 assign_ipv6_address_on_creation |-> None,
                 ipv6_cidr_block |-> None, map_public_ip_on_launch |-> None,
                 tags |-> None],
     elastic_ip |-> [kind |-> "ElasticIp", name |-> "nat-eip", domain |-> Some("vpc"),
                     instance |-> None, network_interface |-> None,
                     public_ipv4_pool |-> None, customer_owned_ipv4_pool |-> None,
                     associate_with_private_ip |-> None, address |-> None,
                     tags |-> None]]

\* the resources the threads own: two Subnets, an internet gateway and two
\* NAT gateways, all pointing into the shared values
Jobs ==
    {[kind |-> "Subnet", name |-> "subnet1", vpc |-> "vpc",
      cidr_block |-> [address |-> <<10, 0, 0, 0>>, prefix_length |-> 16],
      availability_zone |-> None, assign_ipv6_address_on_creation |-> None,
      ipv6_cidr_block |-> None, map_public_ip_on_launch |-> None,
      tags |-> Some([k \in TagKeys |-> TagValue(k)])],
     [kind |-> "Subnet", name |-> "subnet2", vpc |-> "vpc",
      cidr_block |-> [address |-> <<192, 168, 1, 100>>, prefix_length |-> 24],
      availability_zone |-> Some("UsEast1a"),
      assign_ipv6_address_on_creation |-> None,
      ipv6_cidr_block |-> None, map_public_ip_on_launch |-> Some(TRUE),
      tags |-> None],
     [kind |-> "Internet", name |-> "main-igw", vpc |-> "vpc", tags |-> None],
     [kind |-> "NAT", id |-> None, vpc |-> "vpc", subnet |-> "subnet",
      elastic_ip |-> "elastic_ip", connectivity_type |-> Some("public"),
      tags |-> None, state |-> None],
     [kind |-> "NAT", id |-> Some("ngw-12345"), vpc |-> "vpc", subnet |-> "subnet",
      elastic_ip |-> "elastic_ip", connectivity_type |-> None,
      tags |-> Some([k \in {"Name"} |-> TagValue(k)]), state |-> Some("available")]}

\* the reference fields each conversion reads through, in the order it reads them
Refs(kind) ==
    CASE kind = "Subnet" -> <<"vpc">>
      [] kind = "Internet" -> <<"vpc">>
      [] kind = "NAT" -> <<"subnet", "elastic_ip">>

borrow_take(cells, ref) ==
    [value |-> cells[ref], cells |-> [cells EXCEPT ![ref].name = ""]]

\* reading a value through a `&` reference: the value, and the cells afterwards
borrow(cells, ref) == [value |-> cells[ref], cells |-> cells]

\* the resource with the reference fields it has read replaced by what was read
Deref(r, seen) == [f \in DOMAIN r |-> IF f \in DOMAIN seen THEN seen[f] ELSE r[f]]

InitConcurrent ==
    /\ args = NoCall
    /\ cidr = None
    /\ out = NoCall
    /\ resource = None
    /\ block = None
    /\ shared = SharedInit
    /\ threads \in [1..NumThreads ->
                       {[resource |-> j, pc |-> 1, seen |-> <<>>, block |-> None] :
                           j \in Jobs}]

\* thread t evaluates the next `x.<reference>.name` of its conversion
Borrow(t) ==
    /\ threads[t].pc <= Len(Refs(threads[t].resource.kind))
    /\ LET ref == Refs(threads[t].resource.kind)[threads[t].pc]
           got == borrow(shared, threads[t].resource[ref])
       IN  /\ shared' = got.cells
           /\ threads' = [threads EXCEPT ![t].seen = (ref :> got.value) @@ @,
                                          ![t].pc = @ + 1]
    /\ UNCHANGED <<args, cidr, out, resource, block>>

\* thread t adds the attributes, builds the block and returns it
Build(t) ==
    /\ threads[t].pc = Len(Refs(threads[t].resource.kind)) + 1
    /\ threads[t].block.tag = "None"
    /\ \E ord \in Orders(threads[t].resource) :
          threads' = [threads EXCEPT ![t].block =
                         Some(Compiled(Deref(threads[t].resource, threads[t].seen), ord))]
    /\ UNCHANGED <<args, cidr, out, resource, block, shared>>

NextConcurrent == \E t \in 1..NumThreads : Borrow(t) \/ Build(t)

SpecConcurrent == InitConcurrent /\ [][NextConcurrent]_vars

(***************************************************************************)
(* Reference notions the properties are stated with                        *)
(***************************************************************************)

\* mask(p): the word whose top p bits are 1 and the rest 0
Mask(p) == [i \in 1..32 |-> IF i <= p THEN 1 ELSE 0]

BitNot(x) == [i \in 1..32 |-> 1 - x[i]]

\* a <= b for the big-endian numeric values of two addresses
AddrLe(a, b) ==
    \/ a = b
    \/ \E k \in 1..4 : a[k] < b[k] /\ \A j \in 1..(k - 1) : a[j] = b[j]

DigitChars == {"0", "1", "2", "3", "4", "5", "6", "7", "8", "9"}

DigitVal(c) == CHOOSE d \in 0..9 : Digit(d) = c

RECURSIVE Split(_, _)
\* the fields of a character sequence between occurrences of sep
Split(cs, sep) ==
    IF \A i \in 1..Len(cs) : cs[i] # sep THEN <<cs>>
    ELSE LET i == CHOOSE i \in 1..Len(cs) :
                      cs[i] = sep /\ \A j \in 1..(i - 1) : cs[j] # sep
         IN  <<SubSeq(cs, 1, i - 1)>> \o Split(SubSeq(cs, i + 1, Len(cs)), sep)

\* a decimal numeral without sign or leading zero
IsNumeral(cs) ==
    /\ Len(cs) \in 1..3
    /\ \A i \in 1..Len(cs) : cs[i] \in DigitChars
    /\ (Len(cs) > 1 => cs[1] # "0")

RECURSIVE NumeralVal(_)
NumeralVal(cs) ==
    IF cs = <<>> THEN 0
    ELSE 10 * NumeralVal(SubSeq(cs, 1, Len(cs) - 1)) + DigitVal(cs[Len(cs)])

\* the (address, prefix) pair a string "o1.o2.o3.o4/p" denotes, None if it has another shape
ParseCidr(cs) ==
    LET parts == Split(cs, "/")
    IN  IF Len(parts) # 2 \/ ~IsNumeral(parts[2]) THEN None
        ELSE LET octs == Split(parts[1], ".")
             IN  IF Len(octs) # 4 \/ \E k \in 1..4 : ~IsNumeral(octs[k]) THEN None
                 ELSE Some(<<[k \in 1..4 |-> NumeralVal(octs[k])], NumeralVal(parts[2])>>)

(***************************************************************************)
(* Properties of the CIDR engine                                           *)
(***************************************************************************)

\* C1: Block::new(address, prefix_length) fails if and only if
\* prefix_length > 32; on success the block holds exactly the given pair, on
\* failure the result carries no block value at all.
C1_NewFailsIffPrefixAbove32 ==
    cidr.tag # "None" =>
        /\ (cidr.tag = "Err") <=> (args.prefix_length > 32)
        /\ (cidr.tag = "Ok") <=> (args.prefix_length <= 32)
        /\ cidr.tag = "Ok" =>
              cidr.block = [address |-> args.address,
                            prefix_length |-> args.prefix_length]
        /\ cidr.tag = "Err" => "block" \notin DOMAIN cidr

C1_Witness ==
    /\ args.prefix_length = 33
    /\ cidr = [tag |-> "Err", err |-> "Prefix length must be between 0 and 32"]

\* C2: for a valid block (address, p), network_address() is address AND
\* mask(p), mask(p) having its top p bits set (mask(0) = 0, mask(32) = all ones).
C2_NetworkAddressIsAddressAndMask ==
    out.op = "network_address" =>
        out.v = Ipv4Addr_from(BitAnd(u32_from(cidr.block.address),
                                     Mask(cidr.block.prefix_length)))

C2_Witness ==
    /\ out.op = "network_address"
    /\ cidr.block = [address |-> <<192, 168, 1, 100>>, prefix_length |-> 24]
    /\ out.v = <<192, 168, 1, 0>>

\* C3: for a valid block (address, p), broadcast_address() is address OR
\* (NOT mask(p)) on 32-bit words: the address itself for p = 32 and
\* 255.255.255.255 for p = 0.
C3_BroadcastAddressIsAddressOrNotMask ==
    out.op = "broadcast_address" =>
        /\ out.v = Ipv4Addr_from(BitOr(u32_from(cidr.block.address),
                                       BitNot(Mask(cidr.block.prefix_length))))
        /\ cidr.block.prefix_length = 32 => out.v = cidr.block.address
        /\ cidr.block.prefix_length = 0 => out.v = <<255, 255, 255, 255>>

C3_Witness ==
    /\ out.op = "broadcast_address"
    /\ cidr.block = [address |-> <<172, 16, 0, 0>>, prefix_length |-> 12]
    /\ out.v = <<172, 31, 255, 255>>

\* C4: contains(ip) is true exactly when network_address <= ip <=
\* broadcast_address in the unsigned order of the big-endian values, both
\* bounds included.
C4_ContainsIffBetweenBounds ==
    out.op = "contains" =>
        (out.v <=> /\ AddrLe(network_address(cidr.block), out.ip)
                   /\ AddrLe(out.ip, broadcast_address(cidr.block)))

C4_Witness ==
    /\ out.op = "contains"
    /\ cidr.block = [address |-> <<10, 0, 0, 0>>, prefix_length |-> 31]
    /\ out.ip = <<10, 0, 0, 1>>
    /\ out.v = TRUE

\* C5: for a valid block, network_address <= address <= broadcast_address,
\* and the block contains its own network address and its own broadcast
\* address.
C5_AddressWithinOwnBounds ==
    /\ out.op = "network_address" => AddrLe(out.v, cidr.block.address)
    /\ out.op = "broadcast_address" => AddrLe(cidr.block.address, out.v)
    /\ out.op = "contains" /\ out.ip = network_address(cidr.block) => out.v = TRUE
    /\ out.op = "contains" /\ out.ip = broadcast_address(cidr.block) => out.v = TRUE

C5_Witness ==
    /\ out.op = "contains"
    /\ cidr.block = [address |-> <<192, 168, 1, 100>>, prefix_length |-> 24]
    /\ out.ip = <<192, 168, 1, 0>>
    /\ out.v = TRUE

\* C6: a block (a, 0) has network address 0.0.0.0, broadcast address
\* 255.255.255.255 and contains every address; a block (a, 32) has network
\* address = broadcast address = a and contains x exactly when x = a.
C6_BoundaryPrefixes ==
    /\ cidr.tag = "Ok" /\ cidr.block.prefix_length = 0 =>
          /\ out.op = "network_address" => out.v = <<0, 0, 0, 0>>
          /\ out.op = "broadcast_address" => out.v = <<255, 255, 255, 255>>
          /\ out.op = "contains" => out.v = TRUE
    /\ cidr.tag = "Ok" /\ cidr.block.prefix_length = 32 =>
          /\ out.op = "network_address" => out.v = cidr.block.address
          /\ out.op = "broadcast_address" => out.v = cidr.block.address
          /\ out.op = "contains" => (out.v <=> out.ip = cidr.block.address)

C6_Witness ==
    /\ out.op = "contains"
    /\ cidr.block = [address |-> <<192, 168, 1, 100>>, prefix_length |-> 0]
    /\ out.ip = <<10, 0, 0, 2>>
    /\ out.v = TRUE

\* C7: rendering the block constructed from (a, p) yields exactly
\* "<a in dotted decimal>/<p>"; (a, p) is recoverable from it and from the
\* getters address() and prefix_length(); distinct pairs render to distinct
\* strings.
C7_RenderRoundTrip ==
    /\ out.op = "fmt" =>
          /\ ParseCidr(out.v) = Some(<<args.address, args.prefix_length>>)
          /\ \A a \in Addrs, p \in 0..32 :
                Block_fmt(Block_new(a, p).block) = out.v =>
                    a = args.address /\ p = args.prefix_length
    /\ out.op = "address" => out.v = args.address
    /\ out.op = "prefix_length" => out.v = args.prefix_length

C7_Witness ==
    /\ out.op = "fmt"
    /\ args.address = <<10, 0, 0, 0>> /\ args.prefix_length = 16
    /\ out.v = <<"1", "0", ".", "0", ".", "0", ".", "0", "/", "1", "6">>

(***************************************************************************)
(* Reference notions for the compiled blocks                               *)
(***************************************************************************)

\* the values of the attributes of b named key, in body order
AttrValues(b, key) ==
    LET hits == SelectSeq(b.body, LAMBDA st : st.kind = "attribute" /\ st.key = key)
    IN  [i \in 1..Len(hits) |-> hits[i].expr]

HasAttr(b, key) == \E i \in 1..Len(b.body) : b.body[i].kind = "attribute" /\ b.body[i].key = key

HasNested(b, identifier) ==
    \E i \in 1..Len(b.body) :
        b.body[i].kind = "block" /\ b.body[i].block.identifier = identifier

\* the fields declared Option<..> in each resource record
OptionalFields(kind) ==
    CASE kind = "Vpc" ->
            {"instance_tenancy", "enable_dns_hostnames", "enable_dns_support",
             "enable_classiclink", "enable_classiclink_dns_support",
             "assign_generated_ipv6_cidr_block", "tags"}
      [] kind = "VpcDataSource" ->
            {"id", "cidr_block", "owner_id", "enable_dns_hostnames",
             "enable_dns_support", "tags", "filter"}
      [] kind = "ElasticIp" ->
            {"domain", "instance", "network_interface", "public_ipv4_pool",
             "customer_owned_ipv4_pool", "associate_with_private_ip", "address", "tags"}
      [] kind = "Subnet" ->
            {"availability_zone", "assign_ipv6_address_on_creation", "ipv6_cidr_block",
             "map_public_ip_on_launch", "tags"}
      [] kind = "NAT" -> {"id", "connectivity_type", "tags", "state"}
      [] kind = "NATDataSource" -> {"filter", "id", "state", "subnet_id", "tags", "vpc_id"}
      [] kind = "Internet" -> {"tags"}
      [] kind = "InternetDataSource" -> {"internet_gateway_id", "filter", "tags"}
      [] kind = "Cluster" ->
            {"version", "kubernetes_version", "enabled_cluster_log_types",
             "endpoint_private_access", "endpoint_public_access", "encryption_config",
             "tags"}
      [] kind = "BucketACL" -> {"acl", "access_control_policy", "expected_bucket_owner"}
      [] kind = "Bucket" ->
            {"name", "acl", "prefix", "force_destroy", "object_lock_enabled", "tags"}

\* the attribute (or nested block) of the provisioning tool that a field stands for
OutputName(kind, field) ==
    IF kind = "Bucket" /\ field = "name" THEN "bucket"
    ELSE IF kind = "Bucket" /\ field = "prefix" THEN "bucket_prefix"
    ELSE field

\* the fields whose value is structured and compiles to nested blocks
NestedFields == {"filter", "encryption_config", "access_control_policy"}

\* the compiled block carries something named after the field
Emitted(b, kind, field) ==
    IF field \in NestedFields
    THEN HasNested(b, OutputName(kind, field))
    ELSE HasAttr(b, OutputName(kind, field))

NestedCount(b, identifier) ==
    Len(SelectSeq(b.body,
            LAMBDA st : st.kind = "block" /\ st.block.identifier = identifier))

\* the compiled block carries the present field r[field]: its attribute or nested
\* block; for a filter list, one nested block per entry (none when it is empty);
\* for the id of a NAT gateway, which is not an argument of the resource, the
\* second label
EmittedPresent(b, r, field) ==
    IF field = "filter" THEN NestedCount(b, "filter") = Len(r.filter.v)
    ELSE IF r.kind = "NAT" /\ field = "id" THEN b.labels = <<"aws_nat_gateway", r.id.v>>
    ELSE Emitted(b, r.kind, field)

AllOptionalAbsent(r) == \A f \in OptionalFields(r.kind) : r[f].tag = "None"

\* the nested blocks of b named identifier, in body order
NestedBlocks(b, identifier) ==
    LET hits == SelectSeq(b.body,
                    LAMBDA st : st.kind = "block" /\ st.block.identifier = identifier)
    IN  [i \in 1..Len(hits) |-> hits[i].block]

\* the read-only lookup variants
DataSourceKinds == {"VpcDataSource", "NATDataSource", "InternetDataSource"}

\* the resource-type identifier of the provisioning tool for each kind
TypeIdentifier(kind) ==
    CASE kind \in {"Vpc", "VpcDataSource"} -> "aws_vpc"
      [] kind = "ElasticIp" -> "aws_eip"
      [] kind = "Subnet" -> "aws_subnet"
      [] kind \in {"NAT", "NATDataSource"} -> "aws_nat_gateway"
      [] kind \in {"Internet", "InternetDataSource"} -> "aws_internet_gateway"
      [] kind = "Cluster" -> "aws_eks_cluster"
      [] kind = "BucketACL" -> "aws_s3_bucket_acl"
      [] kind = "Bucket" -> "aws_s3_bucket"

\* the name the user gave the resource, or the fallback of a record without a
\* name field; a bucket ACL is named by its bucket; a Bucket without a name
\* has neither
NameOrFallback(r) ==
    CASE r.kind \in {"NAT", "NATDataSource"} ->
            [tag |-> "Some", v |-> IF r.id.tag = "Some" THEN r.id.v ELSE "nat"]
      [] r.kind = "VpcDataSource" ->
            [tag |-> "Some", v |-> IF r.id.tag = "Some" THEN r.id.v ELSE "vpc"]
      [] r.kind = "BucketACL" -> [tag |-> "Some", v |-> r.bucket]
      [] r.kind = "Bucket" -> r.name
      [] OTHER -> [tag |-> "Some", v |-> r.name]

\* an Object read as the mapping it denotes: its entries without their order
AsMapping(e) ==
    IF e.tag = "Object"
    THEN [tag |-> "Object",
          entries |-> {e.entries[i] : i \in 1..Len(e.entries)}]
    ELSE e

\* a block with every Object among its attribute values read as a mapping
UpToEntryOrder(b) ==
    [b EXCEPT !.body =
        [i \in 1..Len(b.body) |->
            IF b.body[i].kind = "attribute"
            THEN [kind |-> "attribute", key |-> b.body[i].key,
                  expr |-> AsMapping(b.body[i].expr)]
            ELSE b.body[i]]]

\* the names of the attributes of b, in body order
AttrKeys(b) ==
    LET hits == SelectSeq(b.body, LAMBDA st : st.kind = "attribute")
    IN  [i \in 1..Len(hits) |-> hits[i].key]

\* the attributes a record's fields compile to, in the order the record
\* declares the fields (fields that become labels or nested blocks left out)
DeclaredAttributes(kind) ==
    CASE kind = "Vpc" ->
            <<"cidr_block", "instance_tenancy", "enable_dns_hostnames",
              "enable_dns_support", "enable_classiclink",
              "enable_classiclink_dns_support", "assign_generated_ipv6_cidr_block",
              "tags">>
      [] kind = "VpcDataSource" ->
            <<"id", "cidr_block", "owner_id", "enable_dns_hostnames",
              "enable_dns_support", "tags">>
      [] kind = "ElasticIp" ->
            <<"domain", "instance", "network_interface", "public_ipv4_pool",
              "customer_owned_ipv4_pool", "associate_with_private_ip", "address",
              "tags">>
      [] kind = "Subnet" ->
            <<"vpc_id", "cidr_block", "availability_zone",
              "assign_ipv6_address_on_creation", "ipv6_cidr_block",
              "map_public_ip_on_launch", "tags">>
      [] kind = "NAT" ->
            <<"subnet_id", "allocation_id", "connectivity_type", "tags", "state">>
      [] kind = "NATDataSource" -> <<"id", "state", "subnet_id", "tags", "vpc_id">>
      [] kind = "Internet" -> <<"vpc_id", "tags">>
      [] kind = "InternetDataSource" -> <<"internet_gateway_id", "tags">>
      [] kind = "Cluster" ->
            <<"name", "version", "role_arn", "kubernetes_version",
              "enabled_cluster_log_types", "endpoint_private_access",
              "endpoint_public_access", "tags">>
      [] kind = "BucketACL" -> <<"acl", "bucket", "expected_bucket_owner">>
      [] kind = "Bucket" ->
            <<"bucket", "acl", "bucket_prefix", "force_destroy",
              "object_lock_enabled", "tags">>

\* the order in which each conversion adds its attributes: the declaration
\* order, except in the four conversions listed
EmissionOrder(kind) ==
    CASE kind = "NAT" ->
            <<"subnet_id", "allocation_id", "connectivity_type", "state", "tags">>
      [] kind = "NATDataSource" -> <<"id", "vpc_id", "state", "tags">>
      [] kind = "Cluster" ->
            <<"name", "role_arn", "version", "kubernetes_version",
              "enabled_cluster_log_types", "endpoint_private_access",
              "endpoint_public_access", "tags">>
      [] kind = "BucketACL" -> <<"bucket", "acl", "expected_bucket_owner">>
      [] OTHER -> DeclaredAttributes(kind)

\* keys lists members of order, each once, in the relative order of order
InOrderOf(keys, order) ==
    /\ \A i \in 1..Len(keys) : \E p \in 1..Len(order) : order[p] = keys[i]
    /\ \A i, j \in 1..Len(keys) :
          i < j => \E p, q \in 1..Len(order) :
                      p < q /\ order[p] = keys[i] /\ order[q] = keys[j]

\* the (address, prefix length) pairs the callers hand to Block::new, and the
\* CIDR text of each
GivenCidrs ==
    {[address |-> <<10, 0, 0, 0>>, prefix_length |-> 16, text |-> "10.0.0.0/16"],
     [address |-> <<192, 168, 1, 100>>, prefix_length |-> 24,
      text |-> "192.168.1.100/24"],
     [address |-> <<10, 0, 0, 0>>, prefix_length |-> 33, text |-> "10.0.0.0/33"]}

\* the addresses x and y agree on their top p bits
TopBitsAgree(x, y, p) == \A i \in 1..p : u32_from(x)[i] = u32_from(y)[i]

\* an unquoted reference expression: the traversal named by token, e.g.
\* aws_vpc.main.id
RawReference(token) == [tag |-> "Raw", raw |-> token]

\* the canned ACL literal of each ACLOptions variant
CannedLiteral(acl) ==
    CASE acl = "Private" -> "private"
      [] acl = "PublicRead" -> "public-read"
      [] acl = "PublicReadWrite" -> "public-read-write"
      [] acl = "AuthenticatedRead" -> "authenticated-read"
      [] acl = "LogDeliveryWrite" -> "log-delivery-write"
      [] acl = "BucketOwnerRead" -> "bucket-owner-read"
      [] acl = "BucketOwnerFullControl" -> "bucket-owner-full-control"

(***************************************************************************)
(* Properties of the resource compilers                                    *)
(***************************************************************************)

\* C8: for every resource compiler and every optional field of its record
\* (the Bucket acl excepted), the compiled block has an attribute or nested
\* block for the field if and only if the field is present; a Bucket with
\* every optional field absent compiles to exactly one attribute,
\* acl = "private".  (A filter list counts as emitted by one nested block per
\* entry, the id of a NAT gateway by the second label.)
C8_OptionalFieldEmittedIffPresent ==
    block.tag = "Some" =>
        /\ \A f \in OptionalFields(resource.kind) :
              \/ resource.kind = "Bucket" /\ f = "acl"
              \/ /\ resource[f].tag = "Some" => EmittedPresent(block.v, resource, f)
                 /\ resource[f].tag = "None" => ~Emitted(block.v, resource.kind, f)
        /\ resource.kind = "Bucket" /\ AllOptionalAbsent(resource) =>
              block.v.body = <<[kind |-> "attribute", key |-> "acl",
                                expr |-> Expression_String("private")]>>

\* C9: every compiled Bucket block has exactly one acl attribute: the String
\* "private" when the acl field is absent, the canned literal of the variant
\* when it is present.
C9_BucketAclDefaultsToPrivate ==
    block.tag = "Some" /\ resource.kind = "Bucket" =>
        AttrValues(block.v, "acl") =
            <<Expression_String(IF resource.acl.tag = "None" THEN "private"
                                ELSE CannedLiteral(resource.acl.v))>>

C9_Witness ==
    /\ block.tag = "Some" /\ resource.kind = "Bucket"
    /\ resource.acl.tag = "None" /\ resource.name = Some("my-bucket")
    /\ AttrValues(block.v, "acl") = <<Expression_String("private")>>

\* C10: in every compiler with a tags field, absent tags yield no tags
\* attribute, and a present but empty tags map yields one tags attribute
\* whose value is an Object with zero entries.
C10_AbsentVersusEmptyTags ==
    block.tag = "Some" /\ "tags" \in DOMAIN resource =>
        /\ resource.tags.tag = "None" => ~HasAttr(block.v, "tags")
        /\ resource.tags.tag = "Some" /\ DOMAIN resource.tags.v = {} =>
              AttrValues(block.v, "tags") = <<Expression_Object(<<>>)>>

C10_Witness ==
    /\ block.tag = "Some" /\ resource.kind = "Subnet"
    /\ resource.tags.tag = "Some" /\ DOMAIN resource.tags.v = {}
    /\ HasAttr(block.v, "tags")

\* C11: the vpc_id attribute of every compiled Subnet block is a raw
\* (unquoted) reference denoting aws_vpc.<name of the subnet's Vpc>.id, not a
\* String expression.
C11_SubnetVpcIdIsRawReference ==
    block.tag = "Some" /\ resource.kind = "Subnet" =>
        AttrValues(block.v, "vpc_id") =
            <<RawReference("aws_vpc." \o resource.vpc.name \o ".id")>>

\* C12: every compiled NAT block has a subnet_id attribute that is a raw
\* reference to aws_subnet.<subnet name>.id and an allocation_id attribute
\* that is a raw reference to aws_eip.<elastic ip name>.id; neither is a
\* String expression.
C12_NatReferencesAreRaw ==
    block.tag = "Some" /\ resource.kind = "NAT" =>
        /\ AttrValues(block.v, "subnet_id") =
              <<RawReference("aws_subnet." \o resource.subnet.name \o ".id")>>
        /\ AttrValues(block.v, "allocation_id") =
              <<RawReference("aws_eip." \o resource.elastic_ip.name \o ".id")>>

\* C13 as stated: the role_arn attribute of every compiled Cluster block is a
\* raw reference to the arn attribute of the role resource, not a String
\* expression.
C13_ClusterRoleArnIsRawReference ==
    block.tag = "Some" /\ resource.kind = "Cluster" =>
        AttrValues(block.v, "role_arn") =
            <<RawReference("aws_iam_role." \o resource.role.name \o ".arn")>>

\* C13: the role_arn attribute of every compiled Cluster block is the String
\* expression holding the text of the arn of the cluster's role.
C13_ClusterRoleArnIsStringOfArn ==
    block.tag = "Some" /\ resource.kind = "Cluster" =>
        AttrValues(block.v, "role_arn") = <<Expression_String(resource.role.arn)>>

C13_Witness ==
    /\ block.tag = "Some" /\ resource.kind = "Cluster"
    /\ resource.role.name = "eks-cluster-role"
    /\ AttrValues(block.v, "role_arn") =
          <<Expression_String("arn:aws:iam::123456789012:role/eks-cluster-role")>>

\* C14: a data-source block compiled from the filter list [f1..fn] has exactly
\* n nested blocks named "filter"; the i-th has no labels and exactly two
\* attributes: name, the String fi.name, then values, the Array of the Strings
\* of fi.values in their order.
C14_FilterBlocksInListOrder ==
    block.tag = "Some" /\ resource.kind \in DataSourceKinds
                       /\ resource.filter.tag = "Some" =>
        NestedBlocks(block.v, "filter") =
            [i \in 1..Len(resource.filter.v) |->
                [identifier |-> "filter", labels |-> <<>>,
                 body |-> <<[kind |-> "attribute", key |-> "name",
                             expr |-> [tag |-> "String", s |-> resource.filter.v[i].name]],
                            [kind |-> "attribute", key |-> "values",
                             expr |-> [tag |-> "Array",
                                       elems |-> [j \in 1..Len(resource.filter.v[i].values) |->
                                                    [tag |-> "String",
                                                     s |-> resource.filter.v[i].values[j]]]]]>>]]

C14_Witness ==
    /\ block.tag = "Some" /\ resource.kind = "InternetDataSource"
    /\ resource.filter.tag = "Some" /\ Len(resource.filter.v) = 2
    /\ resource.filter.v[1].name = "a" /\ resource.filter.v[2].name = "b"
    /\ Len(NestedBlocks(block.v, "filter")) = 2
    /\ NestedBlocks(block.v, "filter")[1].body[1].expr = Expression_String("a")
    /\ NestedBlocks(block.v, "filter")[2].body[1].expr = Expression_String("b")

\* C15: the Vpc named "main" with cidr_block 10.0.0.0/16, enable_dns_support
\* Some(true) and every other optional field absent compiles to the block
\* resource "aws_vpc" "main" whose body is exactly the attribute cidr_block =
\* String "10.0.0.0/16" followed by enable_dns_support = Bool true: no tags
\* attribute, no nested block.
C15_MainVpcScenario ==
    /\ block.tag = "Some" /\ resource.kind = "Vpc" /\ resource.name = "main"
    /\ resource.cidr_block = [address |-> <<10, 0, 0, 0>>, prefix_length |-> 16]
    /\ resource.enable_dns_support = [tag |-> "Some", v |-> TRUE]
    /\ \A f \in OptionalFields("Vpc") \ {"enable_dns_support"} : resource[f].tag = "None"
    => block.v = [identifier |-> "resource",
                  labels |-> <<"aws_vpc", "main">>,
                  body |-> <<[kind |-> "attribute", key |-> "cidr_block",
                              expr |-> [tag |-> "String", s |-> "10.0.0.0/16"]],
                             [kind |-> "attribute", key |-> "enable_dns_support",
                              expr |-> [tag |-> "Bool", b |-> TRUE]]>>]

C15_Witness ==
    /\ block.tag = "Some" /\ resource.kind = "Vpc" /\ resource.name = "main"
    /\ resource.cidr_block = [address |-> <<10, 0, 0, 0>>, prefix_length |-> 16]
    /\ resource.enable_dns_support = [tag |-> "Some", v |-> TRUE]
    /\ \A f \in OptionalFields("Vpc") \ {"enable_dns_support"} : resource[f].tag = "None"
    /\ Len(block.v.body) = 2

\* C16 as stated: every compiled block has exactly two labels, the type
\* identifier of its kind and then the resource's name or its fallback.
C16_ExactlyTwoLabels ==
    block.tag = "Some" =>
        /\ Len(block.v.labels) = 2
        /\ block.v.labels[1] = TypeIdentifier(resource.kind)
        /\ NameOrFallback(resource).tag = "Some" =>
              block.v.labels[2] = NameOrFallback(resource).v

\* C16: every compiled block is labelled with the type identifier of its kind
\* and then the resource's name or its fallback (NAT and NAT data source: the
\* id, else "nat"; Vpc data source: the id, else "vpc"); the block of a Bucket
\* without a name has the type identifier as its only label.
C16_LabelsAreTypeThenName ==
    block.tag = "Some" =>
        block.v.labels =
            IF NameOrFallback(resource).tag = "Some"
            THEN <<TypeIdentifier(resource.kind), NameOrFallback(resource).v>>
            ELSE <<TypeIdentifier(resource.kind)>>

C16_Witness ==
    /\ block.tag = "Some" /\ resource.kind = "VpcDataSource"
    /\ resource.id.tag = "None"
    /\ block.v.labels = <<"aws_vpc", "vpc">>

\* C17: a Bucket without a name compiles to a block whose only label is
\* aws_s3_bucket and which has no bucket attribute; a Bucket with a name, the
\* empty string included, compiles to a block whose second (and last) label is
\* the name and whose one bucket attribute is the String of that name.
C17_BucketNaming ==
    block.tag = "Some" /\ resource.kind = "Bucket" =>
        /\ resource.name.tag = "None" =>
              /\ block.v.labels = <<"aws_s3_bucket">>
              /\ ~HasAttr(block.v, "bucket")
        /\ resource.name.tag = "Some" =>
              /\ block.v.labels = <<"aws_s3_bucket", resource.name.v>>
              /\ AttrValues(block.v, "bucket") =
                    <<[tag |-> "String", s |-> resource.name.v]>>

C17_Witness ==
    /\ block.tag = "Some" /\ resource.kind = "Bucket"
    /\ resource.name = [tag |-> "Some", v |-> ""]
    /\ block.v.labels = <<"aws_s3_bucket", "">>
    /\ HasAttr(block.v, "bucket")

\* C18: the block compiled from a data-source variant has type "data", the
\* block compiled from any other variant has type "resource"; and every
\* attribute of a data-source block is named after an optional field of the
\* record that is present: none stands in for an absent field.
C18_BlockTypeByVariant ==
    block.tag = "Some" =>
        /\ block.v.identifier =
              IF resource.kind \in DataSourceKinds THEN "data" ELSE "resource"
        /\ resource.kind \in DataSourceKinds =>
              \A i \in 1..Len(block.v.body) :
                  block.v.body[i].kind = "attribute" =>
                      /\ block.v.body[i].key \in OptionalFields(resource.kind)
                      /\ resource[block.v.body[i].key].tag = "Some"

C18_Witness ==
    /\ block.tag = "Some" /\ resource.kind = "NATDataSource"
    /\ AllOptionalAbsent(resource)
    /\ block.v.identifier = "data" /\ block.v.body = <<>>

C20_AttributesInDeclarationOrder ==
    block.tag = "Some" =>
        InOrderOf(AttrKeys(block.v), DeclaredAttributes(resource.kind))

\* C20: in every compiled block the attributes follow the order in which the
\* conversion adds them; that is the declaration order of their fields for
\* Vpc, VpcDataSource, ElasticIp, Subnet, Internet, InternetDataSource and
\* Bucket, whereas NAT puts state before tags, NATDataSource vpc_id before
\* state and tags, Cluster role_arn before version, BucketACL bucket before
\* acl.
C20_AttributesInEmissionOrder ==
    block.tag = "Some" =>
        InOrderOf(AttrKeys(block.v), EmissionOrder(resource.kind))

C20_Witness ==
    /\ block.tag = "Some" /\ resource.kind = "NAT"
    /\ resource.tags.tag = "Some" /\ resource.state.tag = "Some"
    /\ resource.connectivity_type.tag = "None"
    /\ AttrKeys(block.v) = <<"subnet_id", "allocation_id", "state", "tags">>

\* C21: in every compiled block of a resource whose tags map m is present,
\* the one tags attribute is an Object with exactly one entry per key of m:
\* as many entries as keys, every key of m among them, and each entry's value
\* the String of m's value for the entry's key.
C21_TagsObjectHasTheMapsEntries ==
    block.tag = "Some" /\ "tags" \in DOMAIN resource /\ resource.tags.tag = "Some" =>
        /\ Len(AttrValues(block.v, "tags")) = 1
        /\ LET e == AttrValues(block.v, "tags")[1]
               m == resource.tags.v
           IN  /\ e.tag = "Object"
               /\ Len(e.entries) = Cardinality(DOMAIN m)
               /\ {e.entries[i].key : i \in 1..Len(e.entries)} = DOMAIN m
               /\ \A i \in 1..Len(e.entries) :
                     e.entries[i].value = [tag |-> "String", s |-> m[e.entries[i].key]]

C21_Witness ==
    /\ block.tag = "Some" /\ resource.kind = "ElasticIp"
    /\ resource.tags.tag = "Some" /\ Cardinality(DOMAIN resource.tags.v) = 2
    /\ Len(AttrValues(block.v, "tags")[1].entries) = 2

\* C22: in every compiled NATDataSource block, each of the fields id,
\* subnet_id, vpc_id and state that is present is emitted as one attribute of
\* the same name whose value is the String of the field.
C22_NatDataSourceScalarsEmitted ==
    block.tag = "Some" /\ resource.kind = "NATDataSource" =>
        \A f \in {"id", "subnet_id", "vpc_id", "state"} :
            resource[f].tag = "Some" =>
                AttrValues(block.v, f) = <<[tag |-> "String", s |-> resource[f].v]>>

\* C23: every compiled Cluster block has exactly one nested vpc_config block,
\* whose only attribute subnet_ids is the Array of one raw reference
\* aws_subnet.<name>.id per subnet of the cluster, in list order; it has one
\* nested encryption_config block, holding a provider block with key_arn =
\* the String of the configured key, when encryption_config is present and
\* none when it is absent; neither is an attribute of the block.
C23_ClusterNestedBlocks ==
    block.tag = "Some" /\ resource.kind = "Cluster" =>
        /\ NestedBlocks(block.v, "vpc_config") =
              <<[identifier |-> "vpc_config", labels |-> <<>>,
                 body |-> <<[kind |-> "attribute", key |-> "subnet_ids",
                             expr |-> [tag |-> "Array",
                                       elems |-> [i \in 1..Len(resource.subnet_ids) |->
                                           RawReference("aws_subnet."
                                               \o resource.subnet_ids[i].name \o ".id")]]]>>]>>
        /\ NestedBlocks(block.v, "encryption_config") =
              IF resource.encryption_config.tag = "Some"
              THEN <<[identifier |-> "encryption_config", labels |-> <<>>,
                      body |-> <<[kind |-> "block",
                                  block |-> [identifier |-> "provider", labels |-> <<>>,
                                             body |-> <<[kind |-> "attribute",
                                                         key |-> "key_arn",
                                                         expr |-> [tag |-> "String",
                                                                   s |-> resource.encryption_config.v.kms_key_arn]]>>]]>>]>>
              ELSE <<>>
        /\ ~HasAttr(block.v, "vpc_config") /\ ~HasAttr(block.v, "subnet_ids")
        /\ ~HasAttr(block.v, "encryption_config")

\* the blocks the conversion of r returns when it runs alone on the shared values
Alone(r) ==
    {Compiled(Deref(r, [f \in {Refs(r.kind)[i] : i \in 1..Len(Refs(r.kind))} |->
                            SharedInit[r[f]]]), ord) : ord \in Orders(r)}

C25_CompilersAreTotal ==
    /\ block.tag = "None" => ENABLED NextCompile
    /\ block.tag = "Some" =>
          /\ block.v.identifier \in {"resource", "data"}
          /\ resource.kind = "Bucket" /\ resource.name.tag = "Some"
                                      /\ resource.prefix.tag = "Some" =>
                /\ AttrValues(block.v, "bucket") =
                      <<[tag |-> "String", s |-> resource.name.v]>>
                /\ AttrValues(block.v, "bucket_prefix") =
                      <<[tag |-> "String", s |-> resource.prefix.v]>>

C25_Witness ==
    /\ block.tag = "Some" /\ resource.kind = "Bucket"
    /\ resource.name = [tag |-> "Some", v |-> "my-bucket"]
    /\ resource.prefix = [tag |-> "Some", v |-> "prefix-"]
    /\ HasAttr(block.v, "bucket") /\ HasAttr(block.v, "bucket_prefix")

\* C26: the cidr::Block of every compiled Vpc or Subnet was built from a given
\* pair (a, p) with p <= 32; its address() is a exactly as given, host bits
\* included, and the cidr_block attribute of the block is the String of the
\* text of (a, p), not of the network address.
C26_CidrIsNotNormalised ==
    block.tag = "Some" /\ resource.kind \in {"Vpc", "Subnet"} =>
        \E g \in GivenCidrs :
            /\ g.prefix_length <= 32
            /\ address(resource.cidr_block) = g.address
            /\ prefix_length(resource.cidr_block) = g.prefix_length
            /\ AttrValues(block.v, "cidr_block") = <<[tag |-> "String", s |-> g.text]>>

C26_Witness ==
    /\ block.tag = "Some" /\ resource.kind = "Subnet"
    /\ address(resource.cidr_block) = <<192, 168, 1, 100>>
    /\ network_address(resource.cidr_block) = <<192, 168, 1, 0>>
    /\ AttrValues(block.v, "cidr_block") = <<Expression_String("192.168.1.100/24")>>

\* C27: for a valid block (a, p), contains(ip) holds exactly when ip and a
\* agree on their top p bits, which is exactly when (ip, p) and (a, p) have
\* the same network_address; the network address of (network_address(a, p),
\* p) is itself; and a block (b, p) with the same network address as (a, p)
\* gives the same answer for ip.
C27_ContainsIffSameNetwork ==
    cidr.tag = "Ok" =>
        LET c == cidr.block
            at(x) == [address |-> x, prefix_length |-> c.prefix_length]
        IN  /\ network_address(at(network_address(c))) = network_address(c)
            /\ out.op = "contains" =>
                  /\ out.v = TopBitsAgree(out.ip, c.address, c.prefix_length)
                  /\ out.v = (network_address(at(out.ip)) = network_address(c))
                  /\ \A b \in Addrs :
                        network_address(at(b)) = network_address(c) =>
                            contains(at(b), out.ip) = out.v

C27_Witness ==
    /\ cidr.tag = "Ok" /\ out.op = "contains"
    /\ args.address = <<192, 168, 1, 100>> /\ args.prefix_length = 16
    /\ out.ip = <<192, 168, 0, 1>> /\ out.v = TRUE

\* the blocks the conversion returns for r with its vpc reference pointing at v
WithVpc(r, v) == {Compiled([r EXCEPT !.vpc = v], ord) : ord \in Orders(r)}

\* C28: the block compiled from a NAT or a Cluster is a block the conversion
\* returns for the same resource with any other Vpc as its vpc reference; the
\* block compiled from a Subnet or an Internet gateway is a block the
\* conversion returns for the same resource with any other Vpc of the same
\* name, whatever its CIDR, flags and tags.
C28_IndependentOfReferencedVpc ==
    block.tag = "Some" =>
        /\ resource.kind \in {"NAT", "Cluster"} =>
              \A v \in RefVpcs : block.v \in WithVpc(resource, v)
        /\ resource.kind \in {"Subnet", "Internet"} =>
              \A v \in RefVpcs :
                  v.name = resource.vpc.name => block.v \in WithVpc(resource, v)

C28_Witness ==
    /\ block.tag = "Some" /\ resource.kind = "NAT"
    /\ resource.vpc.name = "test-vpc"
    /\ \E v \in RefVpcs :
          /\ v.name = "main" /\ v.cidr_block # resource.vpc.cidr_block
          /\ block.v \in WithVpc(resource, v)

\* C29: a data source whose filter list is present but empty compiles to a
\* block, without nested filter block, that the same data source with filter
\* absent compiles to, and the other way round; whereas a data source whose
\* tags map is present but empty compiles to a block that the same data
\* source with tags absent does not compile to.
C29_AbsentAndEmptyFilterAgree ==
    block.tag = "Some" /\ resource.kind \in DataSourceKinds =>
        /\ resource.filter = [tag |-> "Some", v |-> <<>>] =>
              /\ NestedCount(block.v, "filter") = 0
              /\ block.v \in {Compiled([resource EXCEPT !.filter = [tag |-> "None"]], ord) :
                                  ord \in Orders(resource)}
        /\ resource.filter = [tag |-> "None"] =>
              block.v \in {Compiled([resource EXCEPT !.filter = [tag |-> "Some", v |-> <<>>]],
                                     ord) : ord \in Orders(resource)}
        /\ resource.tags.tag = "Some" /\ DOMAIN resource.tags.v = {} =>
              block.v # Compiled([resource EXCEPT !.tags = [tag |-> "None"]], <<>>)

C29_Witness ==
    /\ block.tag = "Some" /\ resource.kind = "VpcDataSource"
    /\ resource.filter = [tag |-> "Some", v |-> <<>>]
    /\ resource.tags.tag = "Some" /\ DOMAIN resource.tags.v = {}
    /\ NestedCount(block.v, "filter") = 0 /\ HasAttr(block.v, "tags")

\* C30: every compiled BucketACL block has one bucket attribute, the String
\* of its second label; it has no acl attribute when acl is absent; it has no
\* access_control_policy attribute, and when access_control_policy is present
\* it has exactly one nested access_control_policy block, whose body is a
\* single type attribute.
C30_BucketAclHasNoDefault ==
    block.tag = "Some" /\ resource.kind = "BucketACL" =>
        /\ Len(block.v.labels) = 2
        /\ AttrValues(block.v, "bucket") = <<[tag |-> "String", s |-> block.v.labels[2]]>>
        /\ resource.acl.tag = "None" => ~HasAttr(block.v, "acl")
        /\ ~HasAttr(block.v, "access_control_policy")
        /\ resource.access_control_policy.tag = "Some" =>
              /\ Len(NestedBlocks(block.v, "access_control_policy")) = 1
              /\ LET acp == NestedBlocks(block.v, "access_control_policy")[1]
                 IN  /\ acp.labels = <<>>
                     /\ Len(acp.body) = 1
                     /\ acp.body[1].kind = "attribute" /\ acp.body[1].key = "type"
                     /\ acp.body[1].expr \in
                           {[tag |-> "String", s |-> "access_control_policy"],
                            [tag |-> "String", s |-> "acl"]}

C30_Witness ==
    /\ block.tag = "Some" /\ resource.kind = "BucketACL"
    /\ resource.acl.tag = "None" /\ resource.access_control_policy.tag = "Some"
    /\ ~HasAttr(block.v, "acl") /\ HasNested(block.v, "access_control_policy")

====
